---- MODULE Spec2Model ----
(***************************************************************************)
(* t3rep: monthly CSV extracts, one task per configured system, run by a   *)
(* dispatcher behind a counting gate (src/main.go).                        *)
(*                                                                         *)
(* The model follows main.go function by function.  Every call that can    *)
(* fail (sql.Open, os.Stat, os.Create, db.Query, rows.Next, rows.Scan,     *)
(* w.Write, f.Close, os.Remove) is a step of its own whose outcome the     *)
(* environment chooses.                                                    *)
(***************************************************************************)
EXTENDS Integers, Sequences, FiniteSets, TLC

\* ---------------------------------------------------------------- bounds
NumSystems == 2      \* largest len(cf.Systems)
MaxMonths == 1       \* largest cf.Months tried
MaxRows == 2         \* largest number of rows a query's result holds
MaxParallel == 2     \* largest -parallel flag value tried
MaxFaults == 1       \* failures the environment injects in one run
MaxWindows == 3      \* largest cf.Months task.reports is followed over
MaxRowLen == 3       \* most characters the fields of one row hold together
MaxNameLen == 3      \* most characters of a system's name

Systems == 1..NumSystems
\* one task alone is followed over one month more
MaxTaskMonths == MaxMonths + 1
\* the rows of each result when all the systems run
RunRows == MaxRows - 1
Months == 0..(MaxTaskMonths - 1)
Paths == Systems \X Months

VARIABLES
    systems,    \* the keys of cf.Systems
    maxParallel, \* the -parallel flag as given on the command line
    parallel,   \* *parallel, main's variable
    months,     \* cf.Months
    dbrows,     \* number of rows the query's result holds
    pre,        \* the target paths that exist when the process starts
    proc,       \* the process: "running", "fatal", "panicked", "exited"
    fatalby,    \* which Fatalf ended the process: "none", "config", "close"
    mainpc,     \* main's position
    semcap,     \* cap(sem)
    sem,        \* len(sem): the gate slots held
    spawned,    \* systems whose goroutine run has started
    errch,      \* errch's buffer: the results sent and not yet received
    nrecv,      \* i of run's receive loop
    fatallog,   \* systems for which run logged "fatal: ..."
    pc,         \* each worker's position
    idx,        \* each task's i in exec's loop over reps
    pos,        \* rows of the open cursor already written, per worker
    werr,       \* the error reporter.write is returning, per worker
    conn,       \* each task's db: "none", "open", "closed"
    files,      \* the file system under cf.Directory, per target path
    ops,        \* the file and query operations generate performed, per report
    errlog,     \* the error-level lines logged, per report
    outcome,    \* how generate ended, per report
    staterr,    \* the error os.Stat returned in report.exists, per report
    faults,     \* failures injected so far
    \* task.reports and makeReport, followed on their own
    now,        \* task.t: the run's now, [year, month, day]
    zone,       \* time.Local
    wpc,        \* position in task.reports: "idle", "loop", "done"
    wlast,      \* task.reports' last
    wreps,      \* task.reports' reports, as far as they are filled
    \* extract and formatCSV, followed on their own
    nassoc,     \* extract's nassoc: the number of columns
    assoc,      \* extract's assoc: the fields of the row scanned last
    buf,        \* extract's buf: the bytes the buffer holds
    wrote,      \* the bytes of the last w.Write
    epc,        \* position in extract: "next", "format", "write", "done"
    turns,      \* rows extract has written
    \* the target paths of a run's tasks, followed on their own
    names,      \* the keys of cf.Systems, as strings
    dir,        \* cf.Directory
    fnames      \* per task that has made its reports, their fname in order

\* the variables of the run
progVars == <<systems, maxParallel, parallel, months, dbrows, pre, proc, fatalby, mainpc, semcap, sem,
          spawned, errch, nrecv, fatallog, pc, idx, pos, werr, conn, files,
          ops, errlog, outcome, staterr, faults>>
\* the variables of the functions followed on their own
winVars == <<now, zone, wpc, wlast, wreps>>
csvVars == <<nassoc, assoc, buf, wrote, epc, turns>>
nameVars == <<names, dir, fnames>>
pureVars == <<winVars, csvVars, nameVars>>

vars == <<progVars, pureVars>>

confVars == <<systems, maxParallel, months, dbrows, pre, pureVars>>
runVars == <<parallel, mainpc, semcap, spawned, nrecv, fatallog>>
repVars == <<files, ops, errlog, outcome, staterr>>

\* ------------------------------------------------------------ file system
NoFile == [present |-> FALSE, data |-> <<>>]
\* the content of a file that was there before the run (row 0 is no row of
\* any result: results hold rows 1..dbrows)
OldFile == [present |-> TRUE, data |-> <<0>>]
NewFile == [present |-> TRUE, data |-> <<>>]

\* the rows of a query's result, in result order
ResultRows == [k \in 1..dbrows |-> k]

\* makeReport: the target path of system s's i-th window
fname(s, i) == <<s, i>>

\* ------------------------------------------------------------------ Init
\* the functions followed on their own are at rest during a run
WinIdle ==
    /\ now = [year |-> 2024, month |-> 1, day |-> 1]
    /\ zone = "UTC"
    /\ wpc = "idle"
    /\ wlast = [year |-> 2024, month |-> 1, day |-> 1, sec |-> 0]
    /\ wreps = <<>>

CsvIdle ==
    /\ nassoc = 0
    /\ assoc = <<>>
    /\ buf = <<>>
    /\ wrote = <<>>
    /\ epc = "next"
    /\ turns = 0

NameIdle ==
    /\ names = {}
    /\ dir = <<>>
    /\ fnames = <<>>

PureIdle == WinIdle /\ CsvIdle /\ NameIdle

\* main's and the workers' variables when main starts
StartRun ==
    /\ parallel = maxParallel
    /\ proc = "running"
    /\ fatalby = "none"
    /\ mainpc = "load"
    /\ semcap = 0
    /\ sem = 0
    /\ spawned = {}
    /\ errch = <<>>
    /\ nrecv = 0
    /\ fatallog = {}
    /\ pc = [s \in Systems |-> "unborn"]
    /\ idx = [s \in Systems |-> 0]
    /\ pos = [s \in Systems |-> 0]
    /\ werr = [s \in Systems |-> "nil"]
    /\ conn = [s \in Systems |-> "none"]
    /\ files = [p \in Paths |-> IF p \in pre THEN OldFile ELSE NoFile]
    /\ ops = [p \in Paths |-> <<>>]
    /\ errlog = [p \in Paths |-> <<>>]
    /\ outcome = [p \in Paths |-> "pending"]
    /\ staterr = [p \in Paths |-> "none"]
    /\ faults = 0

\* the state when main starts, the configuration and the directory given
Start ==
    /\ PureIdle
    /\ StartRun

\* the paths the run's reports have
Targets == {p \in Paths : p[1] \in systems /\ p[2] < months}

\* a run over all systems (or none), any -parallel, an empty directory
InitRun ==
    /\ systems \in {{}, Systems}
    /\ maxParallel \in {-1, 0, 1, MaxParallel}
    /\ months \in -1..MaxMonths
    /\ dbrows = RunRows
    /\ pre = {}
    /\ Start

\* a run over one system, any result size, any of its files already there
InitTask ==
    /\ systems = {1}
    /\ maxParallel = 1
    /\ months \in 0..MaxTaskMonths
    /\ dbrows \in 0..MaxRows
    /\ pre \in SUBSET Targets
    /\ Start

Init == InitRun \/ InitTask

\* the environment makes a call fail / lets it succeed.  The budget counts the
\* first failure of a report; a failing os.Remove follows one and is free.
Fault == faults < MaxFaults /\ faults' = faults + 1
NoFault == faults' = faults

Running == proc = "running"

\* ------------------------------------------------------------------ main
\* main, lines 252-254: the flag's value as main leaves it
Normalize(p) == IF p > 0 THEN 1 ELSE p

\* a gate that lets one sender too many in
CanSendOffByOne(n, c) == n <= c

\* a send on a channel holding n elements of capacity c proceeds without a
\* receiver iff n < c.  With c = 0 a send needs a receiver that is waiting;
\* sem's only receive is line 223, after the same goroutine's own send.
CanSend(n, c) == n < c

\* a result channel with room for one result
ErrchCapOne == IF systems = {} THEN 0 ELSE 1

\* run, line 217: cap(errch)
ErrchCap == Cardinality(systems)

\* a receive loop that stops one result short
ResultsExpectedShort == Cardinality(systems) - 1

\* run, line 226: the number of results run receives before it returns
ResultsExpected == Cardinality(systems)

\* cf.load: the configuration is read, or main ends in Fatalf (line 250)
MainLoad ==
    /\ Running /\ mainpc = "load"
    /\ \/ /\ mainpc' = "normalize"
          /\ UNCHANGED <<proc, fatalby>>
       \/ /\ proc' = "fatal"
          /\ fatalby' = "config"
          /\ UNCHANGED mainpc
    /\ UNCHANGED <<parallel, semcap, sem, spawned, errch, nrecv, fatallog,
                   pc, idx, pos, werr, conn, faults>>
    /\ UNCHANGED confVars
    /\ UNCHANGED repVars

\* lines 252-254
MainNormalize ==
    /\ Running /\ mainpc = "normalize"
    /\ parallel' = Normalize(parallel)
    /\ mainpc' = "makesem"
    /\ UNCHANGED <<proc, fatalby, semcap, sem, spawned, errch, nrecv,
                   fatallog, pc, idx, pos, werr, conn, faults>>
    /\ UNCHANGED confVars
    /\ UNCHANGED repVars

\* line 255: make(chan struct{}, *parallel) panics on a negative size
MainMakeSem ==
    /\ Running /\ mainpc = "makesem"
    /\ IF parallel < 0
         THEN /\ proc' = "panicked"
              /\ UNCHANGED <<semcap, mainpc>>
         ELSE /\ semcap' = parallel
              /\ mainpc' = "spawn"
              /\ UNCHANGED proc
    /\ UNCHANGED <<parallel, fatalby, sem, spawned, errch, nrecv, fatallog,
                   pc, idx, pos, werr, conn, faults>>
    /\ UNCHANGED confVars
    /\ UNCHANGED repVars

\* run, lines 217-225: the loop starts one goroutine per system; each waits
\* at line 220 until the gate lets it in.  The go statements do not block,
\* and a goroutine started early only reaches states it reaches as well
\* when started with the others, so the loop is one step.
RunSpawn ==
    /\ Running /\ mainpc = "spawn"
    /\ spawned' = systems
    /\ pc' = [s \in Systems |-> IF s \in systems THEN "acquire" ELSE pc[s]]
    /\ mainpc' = "collect"
    /\ UNCHANGED <<parallel, proc, fatalby, semcap, sem, errch, nrecv,
                   fatallog, idx, pos, werr, conn, faults>>
    /\ UNCHANGED confVars
    /\ UNCHANGED repVars

\* run, lines 226-230: receive one result, log it when it is an error
RunCollect ==
    /\ Running /\ mainpc = "collect"
    /\ nrecv < ResultsExpected
    /\ errch # <<>>
    /\ errch' = Tail(errch)
    /\ nrecv' = nrecv + 1
    /\ fatallog' = IF Head(errch).err # "nil"
                     THEN fatallog \cup {Head(errch).sys}
                     ELSE fatallog
    /\ UNCHANGED <<parallel, proc, fatalby, mainpc, semcap, sem, spawned,
                   pc, idx, pos, werr, conn, faults>>
    /\ UNCHANGED confVars
    /\ UNCHANGED repVars

\* run, line 231: the loop is over, run returns
RunReturn ==
    /\ Running /\ mainpc = "collect"
    /\ nrecv >= ResultsExpected
    /\ mainpc' = "returned"
    /\ UNCHANGED <<parallel, proc, fatalby, semcap, sem, spawned, errch,
                   nrecv, fatallog, pc, idx, pos, werr, conn, faults>>
    /\ UNCHANGED confVars
    /\ UNCHANGED repVars

\* main, line 257: main returns and the process ends, whatever the
\* goroutines are doing
MainReturn ==
    /\ Running /\ mainpc = "returned"
    /\ proc' = "exited"
    /\ UNCHANGED <<parallel, fatalby, mainpc, semcap, sem, spawned, errch,
                   nrecv, fatallog, pc, idx, pos, werr, conn, faults>>
    /\ UNCHANGED confVars
    /\ UNCHANGED repVars

\* ---------------------------------------------------------------- worker
\* task.exec's loop left after its first report
NextReportBreak(s) ==
    /\ idx' = [idx EXCEPT ![s] = @ + 1]
    /\ pc' = [pc EXCEPT ![s] = "dbclose"]

\* task.exec's loop, lines 188-190: on to the next report, or out of the
\* loop to the deferred db.Close
NextReport(s) ==
    /\ idx' = [idx EXCEPT ![s] = @ + 1]
    /\ pc' = [pc EXCEPT ![s] = IF idx[s] + 1 < months THEN "stat" ELSE "dbclose"]

\* report.exists without its negation
existsInverted(err) == err = "notexist"

\* report.exists that takes only a successful stat for an existing file
existsOnlySuccess(err) == err = "nil"

\* report.exists, lines 149-152, on Stat's error: "nil", "notexist", "other"
exists(err) == ~(err = "notexist")

\* what generate's caller sees logged and done for report p
Did(p, o) == ops' = [ops EXCEPT ![p] = Append(@, o)]
Logged(p, l) == errlog' = [errlog EXCEPT ![p] = Append(@, l)]
Ended(p, o) == outcome' = [outcome EXCEPT ![p] = o]

\* line 220: sem <- struct{}{}; line 221: newTask
Acquire(s) ==
    /\ Running /\ pc[s] = "acquire"
    /\ CanSend(sem, semcap)
    /\ sem' = sem + 1
    /\ pc' = [pc EXCEPT ![s] = "open"]
    /\ UNCHANGED <<proc, fatalby, errch, idx, pos, werr, conn, faults>>
    /\ UNCHANGED confVars
    /\ UNCHANGED runVars
    /\ UNCHANGED repVars

\* task.exec, lines 181-186: sql.Open; on failure exec returns the error
\* (no db to close), work wraps it (lines 210-212)
Open(s) ==
    /\ Running /\ pc[s] = "open"
    /\ \/ /\ NoFault
          /\ conn' = [conn EXCEPT ![s] = "open"]
          /\ pc' = [pc EXCEPT ![s] = "reports"]
          /\ UNCHANGED werr
       \/ /\ Fault
          /\ werr' = [werr EXCEPT ![s] = "connect"]
          /\ pc' = [pc EXCEPT ![s] = "send"]
          /\ UNCHANGED conn
    /\ UNCHANGED <<proc, fatalby, sem, errch, idx, pos>>
    /\ UNCHANGED confVars
    /\ UNCHANGED runVars
    /\ UNCHANGED repVars

\* task.reports, lines 194-202 (make([]report, t.months) panics on a
\* negative length: the deferred db.Close runs and the process dies), then
\* exec's loop starts, line 188
Reports(s) ==
    /\ Running /\ pc[s] = "reports"
    /\ IF months < 0
         THEN /\ proc' = "panicked"
              /\ conn' = [conn EXCEPT ![s] = "closed"]
              /\ UNCHANGED <<pc, idx>>
         ELSE /\ idx' = [idx EXCEPT ![s] = 0]
              /\ pc' = [pc EXCEPT ![s] = IF 0 < months THEN "stat" ELSE "dbclose"]
              /\ UNCHANGED <<proc, conn>>
    /\ UNCHANGED <<fatalby, sem, errch, pos, werr, faults>>
    /\ UNCHANGED confVars
    /\ UNCHANGED runVars
    /\ UNCHANGED repVars

\* os.Stat's error for path p: nil or "not found" as the file system has it,
\* or another error (permission denied) the environment injects
StatErr(p, injected) ==
    IF injected THEN "other"
    ELSE IF files[p].present THEN "nil" ELSE "notexist"

\* reporter.generate, lines 103-107
Stat(s) ==
    /\ Running /\ pc[s] = "stat"
    /\ \E injected \in BOOLEAN :
         LET p == fname(s, idx[s])
             err == StatErr(p, injected)
         IN /\ IF injected THEN Fault ELSE NoFault
            /\ staterr' = [staterr EXCEPT ![p] = err]
            /\ IF exists(err)
                 THEN /\ Ended(p, "skipped")
                      /\ NextReport(s)
                 ELSE /\ pc' = [pc EXCEPT ![s] = "create"]
                      /\ UNCHANGED <<outcome, idx>>
    /\ UNCHANGED <<proc, fatalby, sem, errch, pos, werr, conn>>
    /\ UNCHANGED <<files, ops, errlog>>
    /\ UNCHANGED confVars
    /\ UNCHANGED runVars

\* reporter.generate going on to write after a failed os.Create
CreateFailContinues(s) ==
    /\ Running /\ pc[s] = "create"
    /\ LET p == fname(s, idx[s])
       IN \/ /\ NoFault
             /\ files' = [files EXCEPT ![p] = NewFile]
             /\ Did(p, "create")
             /\ pc' = [pc EXCEPT ![s] = "query"]
             /\ UNCHANGED <<errlog, outcome, idx>>
          \/ /\ Fault
             /\ Logged(p, "cannot create file")
             /\ Ended(p, "create_failed")
             /\ pc' = [pc EXCEPT ![s] = "query"]
             /\ UNCHANGED <<files, ops, idx>>
    /\ UNCHANGED <<proc, fatalby, sem, errch, pos, werr, conn, staterr>>
    /\ UNCHANGED confVars
    /\ UNCHANGED runVars

\* reporter.generate, lines 108-112: os.Create truncates or creates
Create(s) ==
    /\ Running /\ pc[s] = "create"
    /\ LET p == fname(s, idx[s])
       IN \/ /\ NoFault
             /\ files' = [files EXCEPT ![p] = NewFile]
             /\ Did(p, "create")
             /\ pc' = [pc EXCEPT ![s] = "query"]
             /\ UNCHANGED <<errlog, outcome, idx>>
          \/ /\ Fault
             /\ Logged(p, "cannot create file")
             /\ Ended(p, "create_failed")
             /\ NextReport(s)
             /\ UNCHANGED <<files, ops>>
    /\ UNCHANGED <<proc, fatalby, sem, errch, pos, werr, conn, staterr>>
    /\ UNCHANGED confVars
    /\ UNCHANGED runVars

\* reporter.write, lines 94-98: db.Query returns the cursor, fails, or never
\* returns
Query(s) ==
    /\ Running /\ pc[s] = "query"
    /\ LET p == fname(s, idx[s])
       IN /\ Did(p, "query")
          /\ \/ /\ NoFault
                /\ pos' = [pos EXCEPT ![s] = 0]
                /\ pc' = [pc EXCEPT ![s] = "rows"]
                /\ UNCHANGED werr
             \/ /\ Fault
                /\ werr' = [werr EXCEPT ![s] = "cannot query"]
                /\ pc' = [pc EXCEPT ![s] = "genfail"]
                /\ UNCHANGED pos
             \/ /\ Fault
                /\ pc' = [pc EXCEPT ![s] = "hung"]
                /\ UNCHANGED <<pos, werr>>
    /\ UNCHANGED <<proc, fatalby, sem, errch, idx, conn>>
    /\ UNCHANGED <<files, errlog, outcome, staterr>>
    /\ UNCHANGED confVars
    /\ UNCHANGED runVars

\* extract, lines 68-76, one turn of the loop.  rows.Next() is true while a
\* row is left; it is false at the end of the result and also when the
\* cursor fails (rows.Err() is never read): either way the loop ends and
\* extract returns nil, line 77.  rows.Scan fails e.g. on a column count
\* mismatch or a NULL; w.Write fails e.g. on a full disk.
ExtractRow(s) ==
    /\ Running /\ pc[s] = "rows"
    /\ LET p == fname(s, idx[s])
       IN \/ /\ pos[s] < dbrows
             /\ NoFault
             /\ files' = [files EXCEPT
                            ![p].data = Append(@, ResultRows[pos[s] + 1])]
             /\ Did(p, "write")
             /\ pos' = [pos EXCEPT ![s] = @ + 1]
             /\ UNCHANGED <<pc, werr>>
          \/ /\ pos[s] >= dbrows
             /\ NoFault
             /\ pc' = [pc EXCEPT ![s] = "close"]
             /\ UNCHANGED <<files, ops, pos, werr>>
          \/ /\ pos[s] < dbrows
             /\ Fault
             /\ pc' = [pc EXCEPT ![s] = "close"]
             /\ UNCHANGED <<files, ops, pos, werr>>
          \/ /\ pos[s] < dbrows
             /\ Fault
             /\ werr' = [werr EXCEPT ![s] = "cannot scan query"]
             /\ pc' = [pc EXCEPT ![s] = "genfail"]
             /\ UNCHANGED <<files, ops, pos>>
          \/ /\ pos[s] < dbrows
             /\ Fault
             /\ Did(p, "write_failed")
             /\ werr' = [werr EXCEPT ![s] = "cannot write line"]
             /\ pc' = [pc EXCEPT ![s] = "genfail"]
             /\ UNCHANGED <<files, pos>>
    /\ UNCHANGED <<proc, fatalby, sem, errch, idx, conn>>
    /\ UNCHANGED <<errlog, outcome, staterr>>
    /\ UNCHANGED confVars
    /\ UNCHANGED runVars

\* reporter.generate leaving the partial file behind without os.Remove
GenFailNoRemove(s) ==
    /\ Running /\ pc[s] = "genfail"
    /\ LET p == fname(s, idx[s])
       IN /\ NoFault
          /\ ops' = [ops EXCEPT ![p] = Append(@, "close")]
          /\ errlog' = [errlog EXCEPT
                          ![p] = Append(@, "cannot generate report")]
          /\ Ended(p, "generate_failed")
          /\ werr' = [werr EXCEPT ![s] = "nil"]
          /\ NextReport(s)
    /\ UNCHANGED <<proc, fatalby, sem, errch, pos, conn, staterr, files>>
    /\ UNCHANGED confVars
    /\ UNCHANGED runVars

\* reporter.generate handing write's error on to exec and work
GenFailPropagates(s) ==
    /\ Running /\ pc[s] = "genfail"
    /\ LET p == fname(s, idx[s])
       IN /\ NoFault
          /\ \/ /\ files' = [files EXCEPT ![p] = NoFile]
                /\ ops' = [ops EXCEPT ![p] = @ \o <<"close", "remove">>]
                /\ errlog' = [errlog EXCEPT
                                ![p] = Append(@, "cannot generate report")]
             \/ /\ ops' = [ops EXCEPT ![p] = @ \o <<"close", "remove">>]
                /\ errlog' = [errlog EXCEPT
                                ![p] = @ \o <<"cannot generate report",
                                              "remove it manually">>]
                /\ UNCHANGED files
          /\ Ended(p, "generate_failed")
          /\ NextReport(s)
    /\ UNCHANGED <<proc, fatalby, sem, errch, pos, conn, staterr, werr>>
    /\ UNCHANGED confVars
    /\ UNCHANGED runVars

\* reporter.generate, lines 113-120: write returned an error
GenFail(s) ==
    /\ Running /\ pc[s] = "genfail"
    /\ LET p == fname(s, idx[s])
       IN /\ NoFault
          /\ \/ /\ files' = [files EXCEPT ![p] = NoFile]
                /\ ops' = [ops EXCEPT ![p] = @ \o <<"close", "remove">>]
                /\ errlog' = [errlog EXCEPT
                                ![p] = Append(@, "cannot generate report")]
             \/ /\ ops' = [ops EXCEPT ![p] = @ \o <<"close", "remove">>]
                /\ errlog' = [errlog EXCEPT
                                ![p] = @ \o <<"cannot generate report",
                                              "remove it manually">>]
                /\ UNCHANGED files
          /\ Ended(p, "generate_failed")
          /\ werr' = [werr EXCEPT ![s] = "nil"]
          /\ NextReport(s)
    /\ UNCHANGED <<proc, fatalby, sem, errch, pos, conn, staterr>>
    /\ UNCHANGED confVars
    /\ UNCHANGED runVars

\* reporter.generate, lines 121-127: the final f.Close; its failure is
\* logged with Fatalf, which ends the process (lines 123-125 never run)
Close(s) ==
    /\ Running /\ pc[s] = "close"
    /\ LET p == fname(s, idx[s])
       IN /\ Did(p, "close")
          /\ \/ /\ NoFault
                /\ Ended(p, "success")
                /\ NextReport(s)
                /\ UNCHANGED <<proc, fatalby, errlog>>
             \/ /\ Fault
                /\ Logged(p, "cannot close file")
                /\ Ended(p, "close_failed")
                /\ proc' = "fatal"
                /\ fatalby' = "close"
                /\ UNCHANGED <<pc, idx>>
    /\ UNCHANGED <<sem, errch, pos, werr, conn, files, staterr>>
    /\ UNCHANGED confVars
    /\ UNCHANGED runVars

\* task.exec without its deferred db.Close
DbCloseLeak(s) ==
    /\ Running /\ pc[s] = "dbclose"
    /\ pc' = [pc EXCEPT ![s] = "send"]
    /\ UNCHANGED <<proc, fatalby, sem, errch, idx, pos, werr, conn, faults>>
    /\ UNCHANGED confVars
    /\ UNCHANGED runVars
    /\ UNCHANGED repVars

\* task.exec, line 185 (deferred) and 191: db.Close, exec returns nil
DbClose(s) ==
    /\ Running /\ pc[s] = "dbclose"
    /\ conn' = [conn EXCEPT ![s] = "closed"]
    /\ pc' = [pc EXCEPT ![s] = "send"]
    /\ UNCHANGED <<proc, fatalby, sem, errch, idx, pos, werr, faults>>
    /\ UNCHANGED confVars
    /\ UNCHANGED runVars
    /\ UNCHANGED repVars

\* line 222: errch <- work(t, logs); errch's capacity is len(cf.Systems)
Send(s) ==
    /\ Running /\ pc[s] = "send"
    /\ CanSend(Len(errch), ErrchCap)
    /\ errch' = Append(errch, [sys |-> s, err |-> werr[s]])
    /\ pc' = [pc EXCEPT ![s] = "release"]
    /\ UNCHANGED <<proc, fatalby, sem, idx, pos, werr, conn, faults>>
    /\ UNCHANGED confVars
    /\ UNCHANGED runVars
    /\ UNCHANGED repVars

\* a goroutine that ends without its receive from sem
ReleaseKeeps(s) ==
    /\ Running /\ pc[s] = "release"
    /\ pc' = [pc EXCEPT ![s] = "done"]
    /\ UNCHANGED <<proc, fatalby, sem, errch, idx, pos, werr, conn, faults>>
    /\ UNCHANGED confVars
    /\ UNCHANGED runVars
    /\ UNCHANGED repVars

\* line 223: <-sem, then the goroutine ends
Release(s) ==
    /\ Running /\ pc[s] = "release"
    /\ sem > 0
    /\ sem' = sem - 1
    /\ pc' = [pc EXCEPT ![s] = "done"]
    /\ UNCHANGED <<proc, fatalby, errch, idx, pos, werr, conn, faults>>
    /\ UNCHANGED confVars
    /\ UNCHANGED runVars
    /\ UNCHANGED repVars

Worker(s) ==
    \/ Acquire(s) \/ Open(s) \/ Reports(s) \/ Stat(s) \/ Create(s)
    \/ Query(s) \/ ExtractRow(s) \/ GenFail(s)
    \/ Close(s) \/ DbClose(s) \/ Send(s) \/ Release(s)

Next ==
    \/ MainLoad \/ MainNormalize \/ MainMakeSem
    \/ RunSpawn
    \/ RunCollect \/ RunReturn \/ MainReturn
    \/ \E s \in Systems : Worker(s)

Spec == Init /\ [][Next]_vars

\* ------------------------------------------- task.reports and makeReport
\* package time's calendar: the proleptic Gregorian one
IsLeap(y) == (y % 4 = 0 /\ y % 100 # 0) \/ y % 400 = 0

DaysIn(y, m) ==
    IF m = 2 THEN (IF IsLeap(y) THEN 29 ELSE 28)
    ELSE IF m \in {4, 6, 9, 11} THEN 30 ELSE 31

\* the day of the week of y-m-d, 0 for Sunday
Weekday(y, m, d) ==
    LET yy == IF m < 3 THEN y - 1 ELSE y
        mm == IF m < 3 THEN m + 12 ELSE m
    IN  (d + ((13 * (mm + 1)) \div 5) + yy + (yy \div 4) - (yy \div 100)
           + (yy \div 400) + 6) % 7

\* time.Date: a wall clock reading whose fields may be out of range is
\* normalised, seconds into days, months into years, days into months
RECURSIVE Date(_, _, _, _)
Date(y, m, d, s) ==
    IF s >= 86400 THEN Date(y, m, d + 1, s - 86400)
    ELSE IF s < 0 THEN Date(y, m, d - 1, s + 86400)
    ELSE IF m > 12 THEN Date(y + 1, m - 12, d, s)
    ELSE IF m < 1 THEN Date(y - 1, m + 12, d, s)
    ELSE IF d < 1
         THEN IF m = 1 THEN Date(y - 1, 12, d + 31, s)
                       ELSE Date(y, m - 1, d + DaysIn(y, m - 1), s)
    ELSE IF d > DaysIn(y, m) THEN Date(y, m + 1, d - DaysIn(y, m), s)
    ELSE [year |-> y, month |-> m, day |-> d, sec |-> s]

\* Time.AddDate: the fields are added to and the reading normalised as Date does
AddDate(t, years, mons, days) ==
    Date(t.year + years, t.month + mons, t.day + days, t.sec)

\* the seconds by which the zone's wall clock is moved on during y-m-d: the
\* European zones go an hour forward on the last Sunday of March and an hour
\* back on the last Sunday of October, UTC never moves
ClockShift(z, y, m, d) ==
    IF z = "Europe/Berlin" /\ Weekday(y, m, d) = 0 /\ d + 7 > DaysIn(y, m)
    THEN (IF m = 3 THEN 3600 ELSE IF m = 10 THEN 0 - 3600 ELSE 0)
    ELSE 0

\* Time.Add of less than a day to a midnight: the instant moves by dur
\* seconds, its wall clock reading by dur and by what the zone's clock is
\* moved on that day
Add(t, dur, z) ==
    Date(t.year, t.month, t.day, t.sec + dur + ClockShift(z, t.year, t.month, t.day))

\* makeReport, lines 136-143: a report's window
makeReport(start) ==
    [start |-> start,
     end |-> Add(AddDate(start, 0, 1, 0 - 1), 23 * 3600 + 59 * 60 + 59, zone)]

\* the zones time.Local is taken from
Zones == {"UTC", "Europe/Berlin"}

\* the instants a run is started at: the month and its year matter
Nows == [year : {2000, 2021, 2022, 2024, 2025, 2100}, month : 1..12, day : {15}]

InitWindows ==
    /\ systems = {}
    /\ maxParallel = 1
    /\ months \in 0..MaxWindows
    /\ dbrows = 0
    /\ pre = {}
    /\ StartRun
    /\ now \in Nows
    /\ zone \in Zones
    /\ wpc = "idle"
    /\ wlast = [year |-> 2024, month |-> 1, day |-> 1, sec |-> 0]
    /\ wreps = <<>>
    /\ CsvIdle
    /\ NameIdle

\* task.reports, lines 195-196: last is the first instant of now's month
WinStart ==
    /\ wpc = "idle"
    /\ wlast' = Date(now.year, now.month, 1, 0)
    /\ wreps' = <<>>
    /\ wpc' = "loop"
    /\ UNCHANGED <<progVars, csvVars, nameVars, now, zone>>

\* task.reports, lines 197-200: one turn of the loop
WinStep ==
    /\ wpc = "loop"
    /\ Len(wreps) < months
    /\ wlast' = AddDate(wlast, 0, 0 - 1, 0)
    /\ wreps' = Append(wreps, makeReport(wlast'))
    /\ UNCHANGED <<progVars, csvVars, nameVars, now, zone, wpc>>

\* task.reports, line 201
WinReturn ==
    /\ wpc = "loop"
    /\ Len(wreps) >= months
    /\ wpc' = "done"
    /\ UNCHANGED <<progVars, csvVars, nameVars, now, zone, wlast, wreps>>

NextWindows == WinStart \/ WinStep \/ WinReturn

SpecWindows == InitWindows /\ [][NextWindows]_vars

\* ------------------------------------------------------ report.fname
\* the characters of a system's name: a plain one, the path separator, the dot
NameChars == {"x", "/", "."}

Names == UNION {[1..n -> NameChars] : n \in 0..MaxNameLen}

Digit(n) == <<"0", "1", "2", "3", "4", "5", "6", "7", "8", "9">>[n + 1]

\* fmt's %d of a number that is not negative
RECURSIVE Decimal(_)
Decimal(n) == IF n < 10 THEN <<Digit(n)>> ELSE Decimal(n \div 10) \o <<Digit(n % 10)>>

\* fmt's %02d
Pad2(n) == IF n < 10 THEN <<"0">> \o Decimal(n) ELSE Decimal(n)

\* fmt.Sprintf("%s-%d-%02d.csv", name, start.Year(), start.Month()), line 141
Sprintf(name, start) ==
    name \o <<"-">> \o Decimal(start.year) \o <<"-">> \o Pad2(start.month)
         \o <<".", "c", "s", "v">>

\* the elements of path s between its separators, cur the one being read
RECURSIVE Split(_, _)
Split(s, cur) ==
    IF s = <<>> THEN <<cur>>
    ELSE IF Head(s) = "/" THEN <<cur>> \o Split(Tail(s), <<>>)
    ELSE Split(Tail(s), Append(cur, Head(s)))

\* filepath.Clean's pass over the elements: empty ones and "." are dropped,
\* ".." takes the element before it away, or stays at the head of a path
\* that is not rooted
RECURSIVE CleanElems(_, _, _)
CleanElems(elems, rooted, out) ==
    IF elems = <<>> THEN out
    ELSE LET e == Head(elems)
             rest == Tail(elems)
         IN  IF e = <<>> \/ e = <<".">> THEN CleanElems(rest, rooted, out)
             ELSE IF e = <<".", ".">>
                  THEN IF out # <<>> /\ out[Len(out)] # <<".", ".">>
                       THEN CleanElems(rest, rooted, SubSeq(out, 1, Len(out) - 1))
                       ELSE IF rooted THEN CleanElems(rest, rooted, out)
                       ELSE CleanElems(rest, rooted, Append(out, e))
             ELSE CleanElems(rest, rooted, Append(out, e))

\* the elements with a separator between neighbours
RECURSIVE Unsplit(_)
Unsplit(elems) ==
    IF elems = <<>> THEN <<>>
    ELSE IF Len(elems) = 1 THEN Head(elems)
    ELSE Head(elems) \o <<"/">> \o Unsplit(Tail(elems))

\* filepath.Clean
Clean(p) ==
    IF p = <<>> THEN <<".">>
    ELSE LET rooted == Head(p) = "/"
             body == Unsplit(CleanElems(Split(p, <<>>), rooted, <<>>))
         IN  IF rooted THEN <<"/">> \o body
             ELSE IF body = <<>> THEN <<".">> ELSE body

\* filepath.Join of two elements: the empty ones are left out, the others
\* joined by a separator and cleaned
Join(d, f) ==
    IF d = <<>> /\ f = <<>> THEN <<>>
    ELSE IF d = <<>> THEN Clean(f)
    ELSE IF f = <<>> THEN Clean(d)
    ELSE Clean(d \o <<"/">> \o f)

\* task.reports, lines 195-198: last after k turns of the loop
RECURSIVE lastAfter(_)
lastAfter(k) ==
    IF k = 0 THEN Date(now.year, now.month, 1, 0)
    ELSE AddDate(lastAfter(k - 1), 0, 0 - 1, 0)

\* makeReport, line 141: the report's fname
reportFname(name, start) == Join(dir, Sprintf(name, start))

\* a run over two systems of different names
InitNames ==
    /\ systems = {}
    /\ maxParallel = 1
    /\ months \in {1, 2}
    /\ dbrows = 0
    /\ pre = {}
    /\ StartRun
    /\ CsvIdle
    /\ now = [year |-> 2024, month |-> 2, day |-> 15]
    /\ zone = "UTC"
    /\ wpc = "idle"
    /\ wlast = [year |-> 2024, month |-> 1, day |-> 1, sec |-> 0]
    /\ wreps = <<>>
    /\ names \in {{a, b} : a \in Names, b \in Names} \ {{a} : a \in Names}
    /\ dir \in {<<>>, <<"d">>}
    /\ fnames = <<>>

\* task.reports of the task of system name: the fname of each of its reports
TaskReports(name) ==
    /\ name \in names
    /\ name \notin DOMAIN fnames
    /\ fnames' = fnames @@ (name :> [k \in 1..months |-> reportFname(name, lastAfter(k))])
    /\ UNCHANGED <<progVars, winVars, csvVars, names, dir>>

NextNames == \E name \in Names : TaskReports(name)

SpecNames == InitNames /\ [][NextNames]_vars

\* ---------------------------------------------------- extract, formatCSV
\* the characters of a field: two plain ones, the separator, the quote and
\* the backslash
Chars == {"a", "b", ";", "\"", "\\"}

Str(n) == [1..n -> Chars]
StrUpTo(n) == UNION {Str(k) : k \in 0..n}

\* the rows of n columns whose fields hold at most len characters together
Rows(n, len) ==
    IF n = 0 THEN {<<>>}
    ELSE IF n = 1 THEN {<<f>> : f \in StrUpTo(len)}
    ELSE UNION {{<<f, g>> : f \in Str(k), g \in StrUpTo(len - k)} : k \in 0..len}

\* strings.Replace(f, "\"", "\\\"", -1), line 50
RECURSIVE Replace(_)
Replace(f) ==
    IF f = <<>> THEN <<>>
    ELSE (IF Head(f) = "\"" THEN <<"\\", "\"">> ELSE <<Head(f)>>) \o Replace(Tail(f))

\* a buffer that is not emptied
ResetKeeps(b) == b

\* buf.Reset, line 48
Reset(b) == <<>>

\* formatCSV's loop, lines 49-56, from field i on: each Fprintf appends to
\* the buffer
RECURSIVE writeFields(_, _, _)
writeFields(b, fields, i) ==
    IF i > Len(fields) THEN b
    ELSE writeFields(b \o (IF i > 1 THEN <<";">> ELSE <<>>)
                       \o <<"\"">> \o Replace(fields[i]) \o <<"\"">>,
                     fields, i + 1)

\* formatCSV, lines 47-59: the buffer's bytes when it returns
formatCSV(b, fields) == writeFields(Reset(b), fields, 1) \o <<"\r", "\n">>

\* extract over a cursor of one or two rows of up to two columns
InitCSV ==
    /\ systems = {}
    /\ maxParallel = 1
    /\ months = 0
    /\ dbrows \in {1, 2}
    /\ pre = {}
    /\ StartRun
    /\ WinIdle
    /\ NameIdle
    /\ nassoc \in 0..2
    /\ assoc = [i \in 1..nassoc |-> <<>>]
    /\ buf = <<>>
    /\ wrote = <<>>
    /\ epc = "next"
    /\ turns = 0

\* extract, lines 68-69: rows.Next and rows.Scan give the next row; the rows
\* before the cursor's last are short ones
ExtScan ==
    /\ epc = "next"
    /\ turns < dbrows
    /\ \E r \in Rows(nassoc, IF turns + 1 < dbrows THEN 1 ELSE MaxRowLen) :
          assoc' = r
    /\ epc' = "format"
    /\ UNCHANGED <<progVars, winVars, nameVars, nassoc, buf, wrote, turns>>

\* extract, line 72: line is the buffer's bytes
ExtFormat ==
    /\ epc = "format"
    /\ buf' = formatCSV(buf, assoc)
    /\ epc' = "write"
    /\ UNCHANGED <<progVars, winVars, nameVars, nassoc, assoc, wrote, turns>>

\* extract, line 73
ExtWrite ==
    /\ epc = "write"
    /\ wrote' = buf
    /\ turns' = turns + 1
    /\ epc' = "next"
    /\ UNCHANGED <<progVars, winVars, nameVars, nassoc, assoc, buf>>

\* extract, lines 68 and 77: rows.Next is false
ExtReturn ==
    /\ epc = "next"
    /\ turns >= dbrows
    /\ epc' = "done"
    /\ UNCHANGED <<progVars, winVars, nameVars, nassoc, assoc, buf, wrote, turns>>

NextCSV == ExtScan \/ ExtFormat \/ ExtWrite \/ ExtReturn

SpecCSV == InitCSV /\ [][NextCSV]_vars

\* ------------------------------------------------------------ properties
\* the month k months before now's month, as [year, month]
MonthBefore(k) ==
    LET n == now.year * 12 + (now.month - 1) - k
    IN  [year |-> n \div 12, month |-> (n % 12) + 1]

\* the number of the last day of month m of year y
LastDayOf(y, m) ==
    CASE m \in {1, 3, 5, 7, 8, 10, 12} -> 31
      [] m \in {4, 6, 9, 11} -> 30
      [] OTHER -> IF y % 400 = 0 \/ (y % 4 = 0 /\ y % 100 # 0) THEN 29 ELSE 28

\* workers inside work(): between the gate's send and the result's send
ExecPcs == {"open", "reports", "stat", "create", "query", "rows", "genfail",
            "close", "dbclose", "hung"}
Executing == {s \in Systems : pc[s] \in ExecPcs}
\* workers whose task is over and whose result is in errch or received
Finished == {s \in Systems : pc[s] \in {"release", "done"}}
GateMade == mainpc \in {"spawn", "collect", "returned"}
Count(seq, x) == Cardinality({k \in DOMAIN seq : seq[k] = x})

\* C1: for a positive maxParallel, the workers that hold a gate slot and are
\* executing their task are never more than maxParallel.
C1_AtMostMaxParallel ==
    maxParallel > 0 => Cardinality(Executing) <= maxParallel

\* C1 witness: one worker is extracting rows while another waits at the gate
C1_Witness ==
    /\ maxParallel > 0
    /\ \E s, u \in Systems : pc[s] = "rows" /\ pos[s] > 0 /\ pc[u] = "acquire"

\* C2: for a non-positive flag (the default 0 included) and a non-empty
\* system mapping, main leaves parallel at 1 or more, the gate it makes has
\* capacity 1 or more, and a worker waiting at the free gate can enter.
C2_GateCapacityAtLeastOne ==
    (maxParallel <= 0 /\ systems # {}) =>
        /\ mainpc = "makesem" => parallel >= 1
        /\ GateMade => semcap >= 1
        /\ (GateMade /\ sem = 0) => CanSend(sem, semcap)
        /\ proc # "panicked"

\* C3: with a positive maxParallel and a supported months, the process never
\* ends (by Fatalf, a panic or main's return) while a system whose own
\* reports did not fail has not been executed to its end.
C3_EverySystemAttempted ==
    (/\ maxParallel > 0
     /\ months >= 0
     /\ proc # "running"
     /\ fatalby # "config")
    => \A s \in systems :
         (\A i \in Months : outcome[fname(s, i)] # "close_failed")
         => s \in Finished

\* C4: run returns only after every system's task has finished and its
\* result was received.
C4_RunReturnsAfterAll ==
    mainpc = "returned" =>
        /\ systems \subseteq Finished
        /\ nrecv = Cardinality(systems)
        /\ errch = <<>>

\* C4 witness: run has returned over several systems, one of which failed
\* to connect while another generated a report
C4_Witness ==
    /\ mainpc = "returned"
    /\ Cardinality(systems) > 1
    /\ fatallog # {}
    /\ \E p \in Paths : outcome[p] = "success"

\* C5: for maxParallel = k > 1 and at least k systems the gate's capacity is
\* k, so that while fewer than k slots are held (one of them, say, by a task
\* hung in its query) a waiting worker can take one.
C5_GateCapacityIsMaxParallel ==
    (maxParallel > 1 /\ Cardinality(systems) >= maxParallel /\ GateMade) =>
        /\ semcap = maxParallel
        /\ (sem < maxParallel => CanSend(sem, semcap))

\* C6: the process is ended by Fatalf only for a configuration that cannot
\* be loaded, never for a report's or a task's error.
C6_OnlyConfigIsFatal ==
    proc = "fatal" => fatalby = "config"

\* C7: once a report's generation has ended, a target file that exists, was
\* not there before and has no error-level line logged holds every row of
\* the query's result.
C7_FileWithoutErrorIsComplete ==
    \A p \in Paths :
        (/\ outcome[p] # "pending"
         /\ files[p].present
         /\ p \notin pre
         /\ errlog[p] = <<>>)
        => files[p].data = ResultRows

\* C8: a target file that exists when generate is called is never created,
\* queried for, written or removed: its content stays as it was, nothing is
\* logged as an error, and the report ends SKIPPED.
C8_ExistingFileUntouched ==
    \A p \in pre :
        /\ files[p] = OldFile
        /\ ops[p] = <<>>
        /\ errlog[p] = <<>>
        /\ outcome[p] \in {"pending", "skipped"}
        /\ staterr[p] # "none" => outcome[p] = "skipped"

\* C8 witness: generate has run on a file that was there and skipped it,
\* and has gone on to generate the task's next report
C8_Witness ==
    \E p \in pre : \E q \in Paths \ pre :
        /\ outcome[p] = "skipped"
        /\ staterr[p] = "nil"
        /\ outcome[q] = "success"

\* C9: when write fails after the file was created, generate logs the error,
\* closes the file and removes it, each exactly once; then either the file
\* is gone, or the removal failed, 'remove it manually' is logged and the
\* file holds exactly the rows written before the failure.
C9_FailedGenerateCleansUp ==
    \A p \in Paths :
        outcome[p] = "generate_failed" =>
            /\ Count(ops[p], "create") = 1
            /\ Count(ops[p], "close") = 1
            /\ Count(ops[p], "remove") = 1
            /\ SubSeq(ops[p], Len(ops[p]) - 1, Len(ops[p])) = <<"close", "remove">>
            /\ errlog[p] # <<>>
            /\ errlog[p][1] = "cannot generate report"
            /\ IF files[p].present
                 THEN /\ errlog[p] = <<"cannot generate report",
                                       "remove it manually">>
                      /\ files[p].data =
                           SubSeq(ResultRows, 1, Count(ops[p], "write"))
                 ELSE errlog[p] = <<"cannot generate report">>

\* C9 witness: a scan or write failure after a first row, and the removal
\* failed too: the partial file is left with its row
C9_Witness ==
    \E p \in Paths :
        /\ outcome[p] = "generate_failed"
        /\ files[p].present
        /\ Len(files[p].data) > 0
        /\ Len(files[p].data) < dbrows

\* C10, as claimed: a stat error other than 'not found' lets the report be
\* taken as not existing, so that it is not skipped.
C10_StatErrorNotSkipped ==
    \A p \in Paths : staterr[p] = "other" => outcome[p] # "skipped"

\* C10, amended: a stat error other than 'not found' makes the report be
\* taken as existing: it ends SKIPPED and nothing is created, queried,
\* written or removed.
C10_StatErrorSkips ==
    \A p \in Paths :
        staterr[p] = "other" =>
            /\ outcome[p] = "skipped"
            /\ ops[p] = <<>>
            /\ files[p] = IF p \in pre THEN OldFile ELSE NoFile

\* C10 witness: the stat of a path that does not exist failed otherwise
C10_Witness ==
    \E p \in Paths \ pre :
        /\ staterr[p] = "other"
        /\ outcome[p] = "skipped"
        /\ ~files[p].present

\* C11: task.reports yields cf.Months reports; the k-th of them starts at the
\* first instant of the k-th month before now's month and ends at 23:59:59
\* of that month's last day, across year ends, and each window ends one
\* second before the window after it in time starts.
C11_WindowsAreCalendarMonths ==
    wpc = "done" =>
        /\ Len(wreps) = months
        /\ \A k \in 1..Len(wreps) :
              LET mb == MonthBefore(k)
              IN  /\ wreps[k].start = [year |-> mb.year, month |-> mb.month,
                                       day |-> 1, sec |-> 0]
                  /\ wreps[k].end = [year |-> mb.year, month |-> mb.month,
                                     day |-> LastDayOf(mb.year, mb.month),
                                     sec |-> 86399]
        /\ \A k \in 1..(Len(wreps) - 1) :
              Date(wreps[k + 1].end.year, wreps[k + 1].end.month,
                   wreps[k + 1].end.day, wreps[k + 1].end.sec + 1) = wreps[k].start

\* C12: a negative months never makes the process panic.
C12_NegativeMonthsNoCrash ==
    (months < 0 /\ maxParallel >= 0) => proc # "panicked"

\* C13: a task that opened its connection has closed it when its result is
\* sent; when run has returned no connection is open; the open connections
\* are never more than the gate's capacity.
OpenConns == {s \in Systems : conn[s] = "open"}
C13_ConnectionClosedWithTask ==
    /\ \A s \in Systems :
         pc[s] \in {"send", "release", "done"} => conn[s] # "open"
    /\ \A k \in DOMAIN errch : conn[errch[k].sys] # "open"
    /\ mainpc = "returned" => OpenConns = {}
    /\ GateMade => Cardinality(OpenConns) <= semcap

\* C13 witness: run has returned, a task whose report failed has closed its
\* connection
C13_Witness ==
    /\ mainpc = "returned"
    /\ \E s \in systems :
         /\ conn[s] = "closed"
         /\ \E i \in Months : outcome[fname(s, i)] = "generate_failed"

\* C14: the systems' names differ, so no two reports of a run have the same
\* target path, and no two workers create, write or remove the same path.
C14_DistinctNamesDistinctPaths ==
    \A a \in DOMAIN fnames : \A b \in DOMAIN fnames :
        \A j \in DOMAIN fnames[a] : \A k \in DOMAIN fnames[b] :
            (a # b \/ j # k) => fnames[a][j] # fnames[b][k]

\* the number of double quotes among the first j characters of field f
QuotesIn(f, j) == Cardinality({k \in 1..j : f[k] = "\""})

\* field f with a backslash put before each of its double quotes: character j
\* of f stands at place j + QuotesIn(f, j), and the places left are the
\* backslashes
Escaped(f) ==
    [p \in 1..(Len(f) + QuotesIn(f, Len(f))) |->
        IF \E j \in 1..Len(f) : j + QuotesIn(f, j) = p
        THEN f[CHOOSE j \in 1..Len(f) : j + QuotesIn(f, j) = p]
        ELSE "\\"]

\* the first n fields, each escaped and between double quotes, with a
\* semicolon between neighbours
RECURSIVE Joined(_, _)
Joined(fields, n) ==
    IF n = 0 THEN <<>>
    ELSE Joined(fields, n - 1) \o (IF n > 1 THEN <<";">> ELSE <<>>)
           \o <<"\"">> \o Escaped(fields[n]) \o <<"\"">>

\* C15: the line formatCSV makes of a row, and the line extract writes for
\* it, is the row's fields in order, each between double quotes with a
\* backslash before every double quote of the field and no other character
\* changed, joined by semicolons and ended by CR LF; it holds nothing of the
\* row before it.
C15_LineIsQuotedRow ==
    /\ epc = "write" => buf = Joined(assoc, Len(assoc)) \o <<"\r", "\n">>
    /\ (epc \in {"next", "done"} /\ turns > 0) =>
           wrote = Joined(assoc, Len(assoc)) \o <<"\r", "\n">>

\* C15 witness: the second row of a cursor is a"b, and "a\"b" CR LF was
\* written for it
C15_Witness ==
    /\ turns = 2
    /\ assoc = << <<"a", "\"", "b">> >>
    /\ wrote = <<"\"", "a", "\\", "\"", "b", "\"", "\r", "\n">>

\* C16: a report whose file could not be created has one error line, no
\* query, no write, no close and no removal, and no file.
C16_CreateFailedStops ==
    \A p \in Paths :
        outcome[p] = "create_failed" =>
            /\ errlog[p] = <<"cannot create file">>
            /\ ops[p] = <<>>
            /\ files[p] = NoFile

\* C16 witness: the create failed, and the task has ended
C16_Witness ==
    \E s \in systems : \E i \in Months :
        /\ outcome[fname(s, i)] = "create_failed"
        /\ pc[s] = "done"

\* C17: a task generates its reports one at a time in window order, each at
\* most once: the reports before the current one have ended, those after it
\* are untouched, and a task that went through its loop has ended them all,
\* whatever ended SKIPPED, CREATE_FAILED or GENERATE_FAILED on the way.
GenPcs == {"stat", "create", "query", "rows", "genfail", "close", "hung"}
EndedOutcomes == {"skipped", "create_failed", "generate_failed", "success"}
Untouched(p) ==
    outcome[p] = "pending" /\ ops[p] = <<>> /\ staterr[p] = "none"
C17_ReportsInOrderOnce ==
    /\ \A s \in Systems : pc[s] \in GenPcs =>
         /\ idx[s] < months
         /\ \A i \in Months :
              /\ i < idx[s] => outcome[fname(s, i)] \in EndedOutcomes
              /\ i > idx[s] => Untouched(fname(s, i))
    /\ \A s \in Systems :
         (pc[s] \in {"dbclose", "send", "release", "done"} /\ conn[s] # "none")
         => \A i \in Months :
              IF i < months THEN outcome[fname(s, i)] \in EndedOutcomes
                            ELSE Untouched(fname(s, i))
    /\ \A p \in Paths :
         /\ Count(ops[p], "create") <= 1
         /\ Count(ops[p], "query") <= 1
         /\ Count(ops[p], "close") <= 1

\* C17 witness: a report that did not succeed is followed by the next
\* window's report, which succeeded
C17_Witness ==
    \E s \in systems : \E i \in Months :
        /\ i + 1 \in Months
        /\ outcome[fname(s, i)] = "generate_failed"
        /\ outcome[fname(s, i + 1)] = "success"

\* C18: the slots held are those of the workers between their send on sem
\* and their receive from it, never more than the capacity, and none once
\* every worker has ended.
Holders == {s \in Systems : pc[s] \in ExecPcs \cup {"send", "release"}}
C18_SlotsHeldAndReleased ==
    /\ sem = Cardinality(Holders)
    /\ GateMade => sem <= semcap
    /\ (mainpc \in {"collect", "returned"} /\ \A s \in systems : pc[s] = "done")
       => sem = 0

\* C18 witness: all the workers of a run, one of which failed to connect,
\* have released their slots
C18_Witness ==
    /\ Cardinality(systems) > 1
    /\ \A s \in systems : pc[s] = "done"
    /\ \E s \in systems : conn[s] = "none"
    /\ \E s \in systems : conn[s] = "closed"
    /\ sem = 0

\* C19: every worker whose task is over sends one result and never waits to
\* send it; errch never holds more than len(cf.Systems) results, one per
\* system; run receives one result per system and logs 'fatal' for exactly
\* the non-nil ones.
C19_OneResultPerWorker ==
    /\ Len(errch) <= Cardinality(systems)
    /\ \A s \in Systems : (Running /\ pc[s] = "send") => ENABLED Send(s)
    /\ nrecv + Len(errch) = Cardinality(Finished)
    /\ \A j, k \in DOMAIN errch : errch[j].sys = errch[k].sys => j = k
    /\ \A k \in DOMAIN errch : errch[k].sys \in Finished
    /\ fatallog \subseteq {s \in Finished : werr[s] # "nil"}
    /\ mainpc = "returned" =>
         /\ nrecv = Cardinality(systems)
         /\ fatallog = {s \in systems : werr[s] # "nil"}

\* C19 witness: every worker has sent its result before run received any,
\* still holding its slot or not
C19_Witness ==
    /\ Cardinality(systems) > 1
    /\ nrecv = 0
    /\ Len(errch) = Cardinality(systems)

\* C20: a task's result is an error exactly when its connection could not
\* be opened; failed reports leave it nil and get no 'fatal' line.
C20_ErrorOnlyFromOpen ==
    /\ \A k \in DOMAIN errch :
         errch[k].err # "nil" <=> conn[errch[k].sys] = "none"
    /\ \A s \in Systems :
         pc[s] \in {"send", "release", "done"} =>
             (werr[s] # "nil" <=> conn[s] = "none")
    /\ fatallog \subseteq {s \in systems : conn[s] = "none"}
    /\ mainpc = "returned" => fatallog = {s \in systems : conn[s] = "none"}

\* C20 witness: run has returned without a 'fatal' line although a report
\* failed and its partial file could not be removed
C20_Witness ==
    /\ mainpc = "returned"
    /\ fatallog = {}
    /\ \E p \in Paths :
         /\ outcome[p] = "generate_failed"
         /\ Len(errlog[p]) > 1

====
